---- MODULE Spec2Model ----
(***************************************************************************)
(* ZSTRM backend: the scheduling and licensing control loop.               *)
(*                                                                         *)
(* Time is in seconds.  Rows of a table are the elements of a sequence,    *)
(* a row's id is its index.  Optional columns hold NoneT when unset.       *)
(* Columns that no operation reads and that only stamp the time of a write *)
(* (created_at, updated_at, started_at, last_checked_at) are left out.     *)
(*                                                                         *)
(* Spec      a few scheduler ticks of one runner process, with the request *)
(*           handlers; the license state is the one the window starts with *)
(*           (the license cycle sleeps for an hour, longer than the        *)
(*           window).                                                      *)
(* SpecLock  a few scheduler ticks of the runner processes sharing one     *)
(*           database that holds looping schedules; no requests.           *)
(* SpecLic   the license cycle of one process over several hours, with     *)
(*           jobs created beside it.                                       *)
(* SpecDown  the license cycle over two hours, with jobs created and run   *)
(*           beside it.                                                    *)
(*                                                                         *)
(* Timing: a synchronous piece of code takes no time.  In Spec and         *)
(* SpecLock the clock moves in steps of one tick interval and only when    *)
(* every runner sleeps; a sleep ends at the first such clock value at or   *)
(* after its deadline.  In SpecLic and SpecDown the clock moves when the   *)
(* sleep of the license cycle ends, WakeLag seconds past its deadline.     *)
(***************************************************************************)
EXTENDS Integers, Sequences, FiniteSets, TLC

\* ------------------------------------------------------------------ bounds
\* Spec
MaxJobs == 1
MaxSchedules == 2
MaxSessions == 2
MaxEvents == 4
MaxTicks == 2
\* SpecLock
NRunners == 2
MaxLockSchedules == 3
MaxLockSessions == 3
MaxLockEvents == 6
MaxLockTicks == 3
\* SpecLic
MaxLicJobs == 1
MaxLicEvents == 10
MaxLicHours == 8
MaxFaults == 1
WakeLag == 1
\* SpecGate
MaxGateJobs == 2
\* SpecEval
MaxEvalSessions == 3
MaxEvalEvents == 5
MaxEvalTicks == 2
\* SpecDown
MaxDownJobs == 2
MaxDownSessions == 1
MaxDownEvents == 7
MaxDownHours == 2

\* ------------------------------------------------- config.py, Settings
scheduler_tick_seconds == 60
licensing_grace_hours == 6
licensing_retry_backoff_minutes == 5
licensing_retry_window_minutes == 30
license_lease_hours == 1

\* The lease of the runner lock: three tick intervals.
LockTtlTicks == 3

\* Optional[...] = None
NoneT == -1

NoReason == "None"

Runners == 1..NRunners

\* ------------------------------------------------------ models.py, enums
LicenseTier == {"basic", "premium", "ultimate"}
JobStatus == {"pending", "running", "failed", "completed", "cancelled", "invalid"}
ScheduleMode == {"one_time", "windowed"}
EventType == {"started", "stopped", "retry", "invalidated", "downgraded", "upgraded"}

\* The Preset table.  Presets are created by plain data entry and never change;
\* a job may name a preset id that has no row.
presets ==
  << [audio_replace |-> "none", hot_swap |-> "none"],
     [audio_replace |-> "none", hot_swap |-> "immediate"],
     [audio_replace |-> "none", hot_swap |-> "next_loop"],
     [audio_replace |-> "external_loop", hot_swap |-> "none"],
     [audio_replace |-> "external_loop", hot_swap |-> "immediate"],
     [audio_replace |-> "external_loop", hot_swap |-> "next_loop"],
     [audio_replace |-> "video_only", hot_swap |-> "none"],
     [audio_replace |-> "video_only", hot_swap |-> "immediate"],
     [audio_replace |-> "video_only", hot_swap |-> "next_loop"] >>

\* A preset id with no row.
MissingPreset == Len(presets) + 1

\* The preset_id values the requests of Spec carry.
RequestPresets == {1, 2, MissingPreset}

VARIABLES
  now,            \* datetime.utcnow()
  state,          \* licensing_client.state: the LicenseState held in memory
  license_row,    \* the persisted LicenseState row
  retry_deadline, \* LicensingClient._run: retry_deadline
  lic_pc,         \* where LicensingClient._run stands
  lic_wake,       \* the deadline of its sleep
  jobs,           \* Job rows
  schedules,      \* Schedule rows
  sessions,       \* Session rows
  events,         \* EventLog rows
  locks,          \* RunnerLock rows
  pc,             \* per runner: where Scheduler._tick stands
  wake,           \* per runner: the deadline of its sleep
  todo,           \* per runner: the schedules of this tick still to iterate
  seen,           \* per runner: the lock row read by _acquire_lock
  faults          \* database errors and restarts met by _run so far

vars == << now, state, license_row, retry_deadline, lic_pc, lic_wake,
           jobs, schedules, sessions, events, locks, pc, wake, todo, seen,
           faults >>

lic_vars == << state, license_row, retry_deadline, lic_pc, lic_wake, faults >>
runner_vars == << locks, pc, wake, todo, seen >>

\* ---------------------------------------------------------------- rows
NewJob(preset_id) ==
  [preset_id |-> preset_id, status |-> "pending", invalid_reason |-> NoReason]

NewSchedule(job_id, starts_at, ends_at, duration_minutes, mode, loop, run_now) ==
  [job_id |-> job_id, starts_at |-> starts_at, ends_at |-> ends_at,
   duration_minutes |-> duration_minutes, mode |-> mode, loop |-> loop,
   run_now |-> run_now, last_run_at |-> NoneT]

NewSession(schedule_id, job_id) ==
  [schedule_id |-> schedule_id, job_id |-> job_id,
   ended_at |-> NoneT, status |-> "running", reason |-> NoReason]

NewEvent(event_type, job_id, schedule_id, message) ==
  [event_type |-> event_type, job_id |-> job_id, schedule_id |-> schedule_id,
   message |-> message]

NoLock == [id |-> 0, locked_by |-> 0, locked_at |-> 0, expires_at |-> 0]

\* ------------------------------------------------- licensing.py, get_tier
get_tier(st, t) ==
  IF st.lease_expires_at < t
    THEN IF st.grace_expires_at # NoneT /\ st.grace_expires_at > t
           THEN st.tier
           ELSE "basic"
    ELSE st.tier

\* ------------------------------------------------------- jobs.py, the gate
\* A gate that looks at the hot swap before the audio replace.
license_verdict_swap_first(job, tier) ==
  IF job.preset_id \notin DOMAIN presets THEN "Missing preset"
  ELSE LET preset == presets[job.preset_id] IN
    IF tier = "basic" /\ preset.hot_swap # "none"
      THEN "Hot swap requires Premium"
    ELSE IF tier = "basic" /\ preset.audio_replace # "none"
      THEN "Audio replace requires Premium"
    ELSE IF tier # "ultimate" /\ preset.hot_swap = "immediate"
      THEN "Immediate swaps require Ultimate"
    ELSE NoReason

\* The reason evaluate_license invalidates a job for, NoReason when it passes.
license_verdict(job, tier) ==
  IF job.preset_id \notin DOMAIN presets THEN "Missing preset"
  ELSE LET preset == presets[job.preset_id] IN
    IF tier = "basic" /\ preset.audio_replace # "none"
      THEN "Audio replace requires Premium"
    ELSE IF tier = "basic" /\ preset.hot_swap # "none"
      THEN "Hot swap requires Premium"
    ELSE IF tier # "ultimate" /\ preset.hot_swap = "immediate"
      THEN "Immediate swaps require Ultimate"
    ELSE NoReason

invalidate_job(job, reason) ==
  [job EXCEPT !.status = "invalid", !.invalid_reason = reason]

\* A gate that leaves a job that passes as it is.
evaluate_license_keep(job, tier) ==
  IF license_verdict(job, tier) # NoReason
    THEN invalidate_job(job, license_verdict(job, tier))
    ELSE job

evaluate_license(job, tier) ==
  IF license_verdict(job, tier) # NoReason
    THEN invalidate_job(job, license_verdict(job, tier))
    ELSE [job EXCEPT !.invalid_reason = NoReason, !.status = "pending"]

\* The invalidated events downgrade_jobs appends, in the order of the jobs.
RECURSIVE invalidated_events(_, _, _)
invalidated_events(js, i, tier) ==
  IF i > Len(js) THEN << >>
  ELSE (IF license_verdict(js[i], tier) # NoReason
          THEN << NewEvent("invalidated", i, NoneT, license_verdict(js[i], tier)) >>
          ELSE << >>)
       \o invalidated_events(js, i + 1, tier)

downgraded_jobs(js, tier) ==
  [i \in DOMAIN js |-> evaluate_license(js[i], tier)]

\* --------------------------------------------- scheduler.py, the evaluator
\* A one_time schedule that is over at the instant of its end.
should_run_strict_end(schedule, t) ==
  IF schedule.mode = "one_time"
    THEN schedule.starts_at <= t /\ (schedule.ends_at = NoneT \/ t < schedule.ends_at)
    ELSE FALSE

\* A window that stays due after its planned end.
should_run_past_planned_end(schedule, t) ==
  IF schedule.mode = "one_time"
    THEN schedule.starts_at <= t /\ (schedule.ends_at = NoneT \/ t <= schedule.ends_at)
    ELSE IF schedule.ends_at # NoneT /\ t > schedule.ends_at THEN FALSE
    ELSE schedule.starts_at <= t

should_run(schedule, t) ==
  IF schedule.mode = "one_time"
    THEN schedule.starts_at <= t /\ (schedule.ends_at = NoneT \/ t <= schedule.ends_at)
    ELSE LET minutes == IF schedule.duration_minutes = NoneT THEN 0
                        ELSE schedule.duration_minutes
             planned_end == schedule.starts_at + 60 * minutes
         IN IF schedule.ends_at # NoneT /\ t > schedule.ends_at THEN FALSE
            ELSE IF t > planned_end /\ ~schedule.loop THEN FALSE
            ELSE IF /\ schedule.mode = "windowed"
                    /\ ~schedule.loop
                    /\ schedule.ends_at # NoneT
                    /\ schedule.ends_at > planned_end THEN FALSE
            ELSE schedule.starts_at <= t

validate_schedule(schedule) ==
  IF /\ schedule.mode = "windowed"
     /\ schedule.ends_at # NoneT
     /\ schedule.duration_minutes # NoneT
     /\ schedule.duration_minutes # 0
     /\ (schedule.ends_at - schedule.starts_at) > 60 * schedule.duration_minutes
     /\ ~schedule.loop
    THEN "Loop required when window exceeds duration"
    ELSE NoReason

\* A retry window that never closes.
retry_always(schedule, t) == TRUE

retry_within_window(schedule, t) ==
  LET minutes == IF schedule.duration_minutes = NoneT THEN 0
                 ELSE schedule.duration_minutes
      planned_end == schedule.starts_at + 60 * minutes
  IN IF schedule.ends_at # NoneT /\ t > schedule.ends_at THEN FALSE
     ELSE IF t > planned_end /\ ~schedule.loop THEN FALSE
     ELSE TRUE

\* ------------------------------------- scheduler.py, _process_schedule
\* The database operation of _process_schedule at which the database raises,
\* "none" when none does.
FailPoints ==
  {"none", "load", "handle_invalid", "record_event", "start_session",
   "complete_session"}

DB == [jobs |-> jobs, schedules |-> schedules, sessions |-> sessions,
       events |-> events]

\* A decision that looks at the due time first.
process_decision_due_first(js, schedule, tier, t) ==
  IF schedule.job_id \notin DOMAIN js
    THEN [kind |-> "nojob", reason |-> NoReason]
  ELSE IF ~should_run(schedule, t)
    THEN [kind |-> "skip", reason |-> NoReason]
  ELSE IF tier = "basic" /\ schedule.loop /\ schedule.mode = "windowed"
    THEN [kind |-> "invalid", reason |-> "Looped windows require Premium or above"]
  ELSE IF validate_schedule(schedule) # NoReason
    THEN [kind |-> "invalid", reason |-> validate_schedule(schedule)]
  ELSE [kind |-> "run", reason |-> NoReason]

\* A license gate that stops every window at basic, looped or not.
process_decision_gate_all_windows(js, schedule, tier, t) ==
  IF schedule.job_id \notin DOMAIN js
    THEN [kind |-> "nojob", reason |-> NoReason]
  ELSE IF tier = "basic" /\ schedule.mode = "windowed"
    THEN [kind |-> "invalid", reason |-> "Looped windows require Premium or above"]
  ELSE IF validate_schedule(schedule) # NoReason
    THEN [kind |-> "invalid", reason |-> validate_schedule(schedule)]
  ELSE IF ~should_run(schedule, t)
    THEN [kind |-> "skip", reason |-> NoReason]
  ELSE [kind |-> "run", reason |-> NoReason]

\* The decision without the dueness check.
process_decision_no_due_check(js, schedule, tier, t) ==
  IF schedule.job_id \notin DOMAIN js
    THEN [kind |-> "nojob", reason |-> NoReason]
  ELSE IF tier = "basic" /\ schedule.loop /\ schedule.mode = "windowed"
    THEN [kind |-> "invalid", reason |-> "Looped windows require Premium or above"]
  ELSE IF validate_schedule(schedule) # NoReason
    THEN [kind |-> "invalid", reason |-> validate_schedule(schedule)]
  ELSE [kind |-> "run", reason |-> NoReason]

\* The decision that starts a schedule once: a schedule with last_run_at set
\* is skipped.
process_decision_once(js, schedule, tier, t) ==
  IF schedule.job_id \notin DOMAIN js
    THEN [kind |-> "nojob", reason |-> NoReason]
  ELSE IF tier = "basic" /\ schedule.loop /\ schedule.mode = "windowed"
    THEN [kind |-> "invalid", reason |-> "Looped windows require Premium or above"]
  ELSE IF validate_schedule(schedule) # NoReason
    THEN [kind |-> "invalid", reason |-> validate_schedule(schedule)]
  ELSE IF ~should_run(schedule, t) \/ schedule.last_run_at # NoneT
    THEN [kind |-> "skip", reason |-> NoReason]
  ELSE [kind |-> "run", reason |-> NoReason]

\* What _process_schedule decides for a schedule: the branch it takes.
process_decision(js, schedule, tier, t) ==
  IF schedule.job_id \notin DOMAIN js
    THEN [kind |-> "nojob", reason |-> NoReason]
  ELSE IF tier = "basic" /\ schedule.loop /\ schedule.mode = "windowed"
    THEN [kind |-> "invalid", reason |-> "Looped windows require Premium or above"]
  ELSE IF validate_schedule(schedule) # NoReason
    THEN [kind |-> "invalid", reason |-> validate_schedule(schedule)]
  ELSE IF ~should_run(schedule, t)
    THEN [kind |-> "skip", reason |-> NoReason]
  ELSE [kind |-> "run", reason |-> NoReason]

handle_invalid(db, job_id, reason) ==
  [db EXCEPT
     !.jobs = [@ EXCEPT ![job_id] = [@ EXCEPT !.status = "invalid",
                                               !.invalid_reason = reason]],
     !.events = Append(@, NewEvent("invalidated", job_id, NoneT, reason))]

record_event(db, schedule_id, job_id, event_type, message) ==
  [db EXCEPT !.events = Append(@, NewEvent(event_type, job_id, schedule_id, message))]

\* _start_session: the started event is committed first, by a session of its own.
start_session(db, sid, t) ==
  LET job_id == db.schedules[sid].job_id
      withEvent == record_event(db, sid, job_id, "started", "Session started")
  IN [withEvent EXCEPT
        !.sessions = Append(@, NewSession(sid, job_id)),
        !.jobs = [@ EXCEPT ![job_id] = [@ EXCEPT !.status = "running"]],
        !.schedules = [@ EXCEPT ![sid] = [@ EXCEPT !.last_run_at = t]]]

\* A completion that stamps every Session row.
complete_session_all(db, sess_id, success, reason, t) ==
  [db EXCEPT !.sessions =
     [i \in DOMAIN @ |->
        [@[i] EXCEPT !.status = IF success THEN "completed" ELSE "failed",
                     !.ended_at = t,
                     !.reason = reason]]]

complete_session(db, sess_id, success, reason, t) ==
  IF sess_id \in DOMAIN db.sessions
    THEN [db EXCEPT !.sessions = [@ EXCEPT ![sess_id] =
            [@ EXCEPT !.status = IF success THEN "completed" ELSE "failed",
                      !.ended_at = t,
                      !.reason = reason]]]
    ELSE db

\* _process_schedule on schedule row sid: the database it leaves and whether it
\* raised.  A database error at `fail` ends the call there, what was committed
\* before stays.
process_schedule(db, sid, tier, t, fail) ==
  LET schedule == db.schedules[sid]
      d == process_decision(db.jobs, schedule, tier, t)
      ok(x) == [db |-> x, raised |-> FALSE]
      err(x) == [db |-> x, raised |-> TRUE]
  IN IF fail = "load" THEN err(db)
     ELSE IF d.kind \in {"nojob", "skip"} THEN ok(db)
     ELSE IF d.kind = "invalid"
       THEN IF fail = "handle_invalid" THEN err(db)
            ELSE ok(handle_invalid(db, schedule.job_id, d.reason))
     ELSE IF fail = "record_event" THEN err(db)
     ELSE IF fail = "start_session"
       THEN err(record_event(db, sid, schedule.job_id, "started", "Session started"))
     ELSE IF fail = "complete_session" THEN err(start_session(db, sid, t))
     ELSE ok(complete_session(start_session(db, sid, t),
                              Len(db.sessions) + 1, TRUE, NoReason, t))

\* Room in the bounded tables for one more call.
Room(max_sessions, max_events) ==
  Len(sessions) < max_sessions /\ Len(events) + 2 <= max_events

SetDB(db) ==
  /\ jobs' = db.jobs
  /\ schedules' = db.schedules
  /\ sessions' = db.sessions
  /\ events' = db.events

TierNow == get_tier(state, now)

Sleeping == {"sleep_lock", "sleep_retry", "sleep_tick"}

\* ----------------------------------------- scheduler.py, _acquire_lock
\* A lock that stays held at the instant its lease ends.
acquire_refused_at_expiry(lock, runner_id, t) ==
  lock.id # 0 /\ lock.expires_at >= t /\ lock.locked_by # runner_id

\* The decision of _acquire_lock on the row it read (NoLock: no row).
acquire_refused(lock, runner_id, t) ==
  lock.id # 0 /\ lock.expires_at > t /\ lock.locked_by # runner_id

lock_expiration(t) == t + scheduler_tick_seconds * LockTtlTicks

\* The table after the commit of a granted acquire: a new row when none was
\* read, else the row read, updated by its id.
acquire_commit(rows, lock, runner_id, t) ==
  IF lock.id = 0
    THEN Append(rows, [locked_by |-> runner_id, locked_at |-> t,
                       expires_at |-> lock_expiration(t)])
    ELSE [rows EXCEPT ![lock.id] = [locked_by |-> runner_id, locked_at |-> t,
                                    expires_at |-> lock_expiration(t)]]

\* _tick reaches _acquire_lock (at its start, or when its sleep is over) and
\* the SELECT of the lock row runs.  The read and the commit are two database
\* operations: other processes may run between them.
AcquireRead(r) ==
  /\ \/ pc[r] = "start"
     \/ pc[r] \in {"sleep_lock", "sleep_tick"} /\ now >= wake[r]
  /\ seen' = [seen EXCEPT ![r] =
        IF locks = << >> THEN NoLock
        ELSE [id |-> 1, locked_by |-> locks[1].locked_by,
              locked_at |-> locks[1].locked_at,
              expires_at |-> locks[1].expires_at]]
  /\ pc' = [pc EXCEPT ![r] = "acquire"]
  /\ UNCHANGED << now, lic_vars, jobs, schedules, sessions, events, locks, wake, todo >>

\* A refused acquire that stamps the row it read.
AcquireRefusedStamps(r) ==
  /\ pc[r] = "acquire"
  /\ acquire_refused(seen[r], r, now)
  /\ locks' = [locks EXCEPT ![seen[r].id] = [@ EXCEPT !.locked_at = now]]
  /\ pc' = [pc EXCEPT ![r] = "sleep_lock"]
  /\ wake' = [wake EXCEPT ![r] = now + scheduler_tick_seconds]
  /\ UNCHANGED << now, lic_vars, jobs, schedules, sessions, events, todo, seen >>

\* _acquire_lock returns False: _tick sleeps one interval.
AcquireRefused(r) ==
  /\ pc[r] = "acquire"
  /\ acquire_refused(seen[r], r, now)
  /\ pc' = [pc EXCEPT ![r] = "sleep_lock"]
  /\ wake' = [wake EXCEPT ![r] = now + scheduler_tick_seconds]
  /\ UNCHANGED << now, lic_vars, jobs, schedules, sessions, events, locks, todo, seen >>

\* _acquire_lock commits and returns True: _tick fetches all schedules.
AcquireGranted(r) ==
  /\ pc[r] = "acquire"
  /\ ~acquire_refused(seen[r], r, now)
  /\ locks' = acquire_commit(locks, seen[r], r, now)
  /\ pc' = [pc EXCEPT ![r] = "iterate"]
  /\ todo' = [todo EXCEPT ![r] = [i \in 1..Len(schedules) |-> i]]
  /\ UNCHANGED << now, lic_vars, jobs, schedules, sessions, events, wake, seen >>

\* ------------------------------------------------- scheduler.py, _tick
\* One pass of the for loop: the schedule is processed; when that raises, a
\* retry event is recorded and, within the retry window, _tick sleeps one
\* interval with the schedule still at hand.
ProcessNext(r) ==
  /\ pc[r] = "iterate"
  /\ todo[r] # << >>
  /\ \E fail \in FailPoints :
       LET sid == Head(todo[r])
           res == process_schedule(DB, sid, TierNow, now, fail)
           retry == retry_within_window(schedules[sid], now)
       IN IF res.raised
            THEN /\ SetDB(record_event(res.db, sid, schedules[sid].job_id,
                                       "retry", "error"))
                 /\ pc' = [pc EXCEPT ![r] = IF retry THEN "sleep_retry" ELSE "iterate"]
                 /\ wake' = [wake EXCEPT ![r] =
                                IF retry THEN now + scheduler_tick_seconds ELSE @]
                 /\ todo' = [todo EXCEPT ![r] = IF retry THEN @ ELSE Tail(@)]
            ELSE /\ SetDB(res.db)
                 /\ todo' = [todo EXCEPT ![r] = Tail(@)]
                 /\ UNCHANGED << pc, wake >>
  /\ UNCHANGED << now, lic_vars, locks, seen >>

\* The re-attempt after the retry sleep.  It runs inside the except clause:
\* when it raises, the exception leaves _tick and the task ends.
RetryAttempt(r) ==
  /\ pc[r] = "sleep_retry"
  /\ now >= wake[r]
  /\ \E fail \in FailPoints :
       LET res == process_schedule(DB, Head(todo[r]), TierNow, now, fail)
       IN /\ SetDB(res.db)
          /\ pc' = [pc EXCEPT ![r] = IF res.raised THEN "crashed" ELSE "iterate"]
          /\ todo' = [todo EXCEPT ![r] = IF res.raised THEN @ ELSE Tail(@)]
  /\ UNCHANGED << now, lic_vars, locks, wake, seen >>

\* The for loop is over: _tick sleeps one interval.
EndOfTick(r) ==
  /\ pc[r] = "iterate"
  /\ todo[r] = << >>
  /\ pc' = [pc EXCEPT ![r] = "sleep_tick"]
  /\ wake' = [wake EXCEPT ![r] = now + scheduler_tick_seconds]
  /\ UNCHANGED << now, lic_vars, jobs, schedules, sessions, events, locks, todo, seen >>

\* The clock: one tick interval passes while every runner sleeps (or has not
\* started, or has ended) and no sleep is over.
Advance(max_ticks) ==
  /\ now < max_ticks * scheduler_tick_seconds
  /\ \A r \in Runners :
       \/ pc[r] \in {"start", "crashed"}
       \/ pc[r] \in Sleeping /\ now < wake[r]
  /\ now' = now + scheduler_tick_seconds
  /\ UNCHANGED << lic_vars, jobs, schedules, sessions, events, runner_vars >>

\* ------------------------------------------------ routes.py, requests
\* POST /jobs
create_job(preset_id) ==
  /\ jobs' = Append(jobs, evaluate_license(NewJob(preset_id), TierNow))
  /\ events' = IF license_verdict(NewJob(preset_id), TierNow) # NoReason
                 THEN Append(events, NewEvent("invalidated", Len(jobs) + 1, NoneT,
                        license_verdict(NewJob(preset_id), TierNow)))
                 ELSE events
  /\ UNCHANGED << now, lic_vars, schedules, sessions, runner_vars >>

\* The schedules the requests of Spec create: a one_time schedule
\* due from 0 on, with and without run_now, and a looping window of one minute.
ScheduleShapes ==
  { NewSchedule(1, 0, NoneT, NoneT, "one_time", FALSE, FALSE),
    NewSchedule(1, 0, NoneT, NoneT, "one_time", FALSE, TRUE),
    NewSchedule(1, 0, NoneT, 1, "windowed", TRUE, FALSE) }

\* POST /schedules
create_schedule(payload) ==
  /\ LET added == [DB EXCEPT !.schedules = Append(@, payload)]
     IN IF payload.run_now
          THEN \E fail \in FailPoints :
                 SetDB(process_schedule(added, Len(schedules) + 1, TierNow, now, fail).db)
          ELSE SetDB(added)
  /\ UNCHANGED << now, lic_vars, runner_vars >>

\* POST /run-now with the schedule_id of a row
run_now(schedule_id, job_id) ==
  /\ job_id \in DOMAIN jobs
  /\ schedule_id \in DOMAIN schedules
  /\ \E fail \in FailPoints :
       SetDB(process_schedule(DB, schedule_id, TierNow, now, fail).db)
  /\ UNCHANGED << now, lic_vars, runner_vars >>

\* POST /run-now without a schedule: a one_time schedule starting now is created
run_now_new(job_id) ==
  /\ job_id \in DOMAIN jobs
  /\ LET added == [DB EXCEPT !.schedules =
                     Append(@, NewSchedule(job_id, now, NoneT, NoneT, "one_time",
                                           FALSE, TRUE))]
     IN \E fail \in FailPoints :
          SetDB(process_schedule(added, Len(schedules) + 1, TierNow, now, fail).db)
  /\ UNCHANGED << now, lic_vars, runner_vars >>

\* ------------------------------------------------------------- Spec
\* The license states a window of scheduler ticks starts with: the row
\* _load_license creates, and leases granted by earlier renewals.
WindowLicenses ==
  { [tier |-> "basic", lease_expires_at |-> 0, grace_expires_at |-> NoneT],
    [tier |-> "premium", lease_expires_at |-> scheduler_tick_seconds,
     grace_expires_at |-> NoneT],
    [tier |-> "ultimate", lease_expires_at |-> license_lease_hours * 3600,
     grace_expires_at |-> NoneT] }

Init ==
  /\ now = 0
  /\ state \in WindowLicenses
  /\ license_row = state
  /\ retry_deadline = licensing_retry_window_minutes * 60
  /\ lic_pc = "sleep"
  /\ lic_wake = license_lease_hours * 3600
  /\ faults = 0
  /\ jobs = << >>
  /\ schedules = << >>
  /\ sessions = << >>
  /\ events = << >>
  /\ locks = << >>
  /\ pc = [r \in Runners |-> "start"]
  /\ wake = [r \in Runners |-> 0]
  /\ todo = [r \in Runners |-> << >>]
  /\ seen = [r \in Runners |-> NoLock]

\* The runner of the process the requests are served by.
Local == 1

SpecRoom == Room(MaxSessions, MaxEvents)

Next ==
  \/ AcquireRead(Local)
  \/ AcquireGranted(Local)
  \/ SpecRoom /\ ProcessNext(Local)
  \/ SpecRoom /\ RetryAttempt(Local)
  \/ EndOfTick(Local)
  \/ Advance(MaxTicks)
  \/ \E p \in RequestPresets : SpecRoom /\ Len(jobs) < MaxJobs /\ create_job(p)
  \/ \E payload \in ScheduleShapes :
       SpecRoom /\ Len(schedules) < MaxSchedules /\ create_schedule(payload)
  \/ \E s \in 1..MaxSchedules, j \in 1..MaxJobs : SpecRoom /\ run_now(s, j)
  \/ \E j \in 1..MaxJobs :
       SpecRoom /\ Len(schedules) < MaxSchedules /\ run_now_new(j)

Spec == Init /\ [][Next]_vars

\* --------------------------------------------------------- SpecLock
\* Runner processes sharing one database that holds a job and looping
\* schedules for it, under an ultimate license; no requests arrive.
LoopSchedule == NewSchedule(1, 0, NoneT, 1, "windowed", TRUE, FALSE)

InitLock ==
  /\ now = 0
  /\ state = [tier |-> "ultimate", lease_expires_at |-> license_lease_hours * 3600,
              grace_expires_at |-> NoneT]
  /\ license_row = state
  /\ retry_deadline = licensing_retry_window_minutes * 60
  /\ lic_pc = "sleep"
  /\ lic_wake = license_lease_hours * 3600
  /\ faults = 0
  /\ jobs = << NewJob(1) >>
  /\ \E n \in 0..MaxLockSchedules : schedules = [i \in 1..n |-> LoopSchedule]
  /\ sessions = << >>
  /\ events = << >>
  /\ locks = << >>
  /\ pc = [r \in Runners |-> "start"]
  /\ wake = [r \in Runners |-> 0]
  /\ todo = [r \in Runners |-> << >>]
  /\ seen = [r \in Runners |-> NoLock]

LockRoom == Room(MaxLockSessions, MaxLockEvents)

NextLock ==
  \/ \E r \in Runners : AcquireRead(r)
  \/ \E r \in Runners : AcquireRefused(r)
  \/ \E r \in Runners : AcquireGranted(r)
  \/ \E r \in Runners : LockRoom /\ ProcessNext(r)
  \/ \E r \in Runners : LockRoom /\ RetryAttempt(r)
  \/ \E r \in Runners : EndOfTick(r)
  \/ Advance(MaxLockTicks)

SpecLock == InitLock /\ [][NextLock]_vars

\* ---------------------------------------------------- licensing.py
grace_window(t) == t + licensing_grace_hours * 3600
lease_window(t) == t + license_lease_hours * 3600
retry_window(t) == t + licensing_retry_window_minutes * 60

\* A downgrade that acts whenever the tier in force is basic.
downgrade_needed_any(st, t) == get_tier(st, t) = "basic"

\* downgrade_if_needed acts when the tier in force is basic and the tier held
\* is not.
downgrade_needed(st, t) == get_tier(st, t) = "basic" /\ st.tier # "basic"

ForcedDowngrade ==
  NewEvent("downgraded", NoneT, NoneT, "Automatic downgrade after grace window")

\* downgrade_if_needed as a step of the process: the tier held in memory and
\* the row are set to basic, the row gets a grace window, and downgrade_jobs
\* evaluates every job under the tier then in force.
downgrade_if_needed ==
  IF downgrade_needed(state, now)
    THEN LET held == [state EXCEPT !.tier = "basic"]
         IN /\ state' = held
            /\ license_row' = [license_row EXCEPT
                                 !.tier = "basic",
                                 !.grace_expires_at = grace_window(now)]
            /\ jobs' = downgraded_jobs(jobs, get_tier(held, now))
            /\ events' = Append(events, ForcedDowngrade)
                            \o invalidated_events(jobs, 1, get_tier(held, now))
    ELSE UNCHANGED << state, license_row, jobs, events >>

\* The top of the loop of _run: when the lease is over, downgrade_if_needed.
LicTop ==
  /\ lic_pc = "top"
  /\ IF now >= state.lease_expires_at
       THEN downgrade_if_needed
       ELSE UNCHANGED << state, license_row, jobs, events >>
  /\ lic_pc' = "renew"
  /\ UNCHANGED << now, retry_deadline, lic_wake, faults, schedules, sessions,
                  runner_vars >>

\* What the request to the license endpoint gives: a tier, or "failed" (network
\* error, non-2xx, timeout, a tier that is none of the three).
RenewalOutcomes == LicenseTier \cup {"failed"}

\* A renewal that gives the tier up as soon as an attempt fails.
renewed_drop(st, outcome, t) ==
  IF outcome = "failed"
    THEN [st EXCEPT !.tier = "basic", !.grace_expires_at = grace_window(t)]
    ELSE [tier |-> outcome, lease_expires_at |-> lease_window(t),
          grace_expires_at |-> NoneT]

\* renew_license on the state held in memory, which it changes in place.
renewed(st, outcome, t) ==
  IF outcome = "failed"
    THEN [st EXCEPT !.grace_expires_at = grace_window(t)]
    ELSE [tier |-> outcome, lease_expires_at |-> lease_window(t),
          grace_expires_at |-> NoneT]

renewal_event(outcome) ==
  IF outcome = "failed"
    THEN NewEvent("downgraded", NoneT, NoneT, "License downgraded")
    ELSE NewEvent("upgraded", NoneT, NoneT, "License upgraded")

\* renew_license returns: the row is written, the retry deadline is set anew,
\* and _run sleeps for the lease interval.
LicRenew(outcome) ==
  /\ lic_pc = "renew"
  /\ state' = renewed(state, outcome, now)
  /\ license_row' = state'
  /\ events' = Append(events, renewal_event(outcome))
  /\ retry_deadline' = retry_window(now)
  /\ lic_wake' = lease_window(now)
  /\ lic_pc' = "sleep"
  /\ UNCHANGED << now, faults, jobs, schedules, sessions, runner_vars >>

\* renew_license raises: the database fails when the row is to be written.  The
\* state in memory is already changed; _run keeps its retry deadline, calls
\* downgrade_if_needed when the deadline is past, and sleeps for the backoff
\* interval.
LicRenewRaises(outcome) ==
  /\ lic_pc = "renew"
  /\ faults < MaxFaults
  /\ faults' = faults + 1
  /\ LET st == renewed(state, outcome, now)
     IN IF now > retry_deadline /\ downgrade_needed(st, now)
          THEN LET held == [st EXCEPT !.tier = "basic"]
               IN /\ state' = held
                  /\ license_row' = [license_row EXCEPT
                                       !.tier = "basic",
                                       !.grace_expires_at = grace_window(now)]
                  /\ jobs' = downgraded_jobs(jobs, get_tier(held, now))
                  /\ events' = Append(events, ForcedDowngrade)
                                  \o invalidated_events(jobs, 1, get_tier(held, now))
          ELSE /\ state' = st
               /\ UNCHANGED << license_row, jobs, events >>
  /\ lic_wake' = now + licensing_retry_backoff_minutes * 60
  /\ lic_pc' = "sleep"
  /\ UNCHANGED << now, retry_deadline, schedules, sessions, runner_vars >>

\* The sleep of _run ends: the clock is past its deadline by lag seconds.
LicWake(lag, max_hours) ==
  /\ lic_pc = "sleep"
  /\ lic_wake + lag <= max_hours * 3600
  /\ now' = lic_wake + lag
  /\ lic_pc' = "top"
  /\ UNCHANGED << state, license_row, retry_deadline, lic_wake, faults, jobs,
                  schedules, sessions, events, runner_vars >>

\* main.py, startup, with the module-level LicensingClient(): the process
\* starts again while _run sleeps.  The row is loaded, downgrade_jobs runs, and
\* _run starts with a new retry deadline.
Restart ==
  /\ lic_pc = "sleep"
  /\ faults < MaxFaults
  /\ faults' = faults + 1
  /\ state' = license_row
  /\ jobs' = downgraded_jobs(jobs, get_tier(license_row, now))
  /\ events' = events \o invalidated_events(jobs, 1, get_tier(license_row, now))
  /\ retry_deadline' = retry_window(now)
  /\ lic_pc' = "top"
  /\ UNCHANGED << now, license_row, lic_wake, schedules, sessions,
                  runner_vars >>

\* ---------------------------------------------------------- SpecLic
\* The row _load_license creates in an empty database.
InitLic ==
  /\ now = 0
  /\ state = [tier |-> "basic", lease_expires_at |-> 0, grace_expires_at |-> NoneT]
  /\ license_row = state
  /\ retry_deadline = retry_window(0)
  /\ lic_pc = "top"
  /\ lic_wake = 0
  /\ faults = 0
  /\ jobs = << >>
  /\ schedules = << >>
  /\ sessions = << >>
  /\ events = << >>
  /\ locks = << >>
  /\ pc = [r \in Runners |-> "start"]
  /\ wake = [r \in Runners |-> 0]
  /\ todo = [r \in Runners |-> << >>]
  /\ seen = [r \in Runners |-> NoLock]

\* The preset_id values the requests carry beside the licence cycle.
LicPresets == {1, 3}

LicRoom == Room(1, MaxLicEvents)

NextLic ==
  \/ LicRoom /\ LicTop
  \/ \E outcome \in RenewalOutcomes : LicRoom /\ LicRenew(outcome)
  \/ \E outcome \in RenewalOutcomes : LicRoom /\ LicRenewRaises(outcome)
  \/ LicWake(WakeLag, MaxLicHours)
  \/ LicRoom /\ Restart
  \/ \E p \in LicPresets : LicRoom /\ Len(jobs) < MaxLicJobs /\ create_job(p)

SpecLic == InitLic /\ [][NextLic]_vars

\* ---------------------------------------------------------- SpecDown
\* The licence cycle over a short horizon, with jobs that run.
DownRoom == Room(MaxDownSessions + 1, MaxDownEvents)

NextDown ==
  \/ DownRoom /\ LicTop
  \/ \E outcome \in RenewalOutcomes : DownRoom /\ LicRenew(outcome)
  \/ \E outcome \in RenewalOutcomes : DownRoom /\ LicRenewRaises(outcome)
  \/ LicWake(WakeLag, MaxDownHours)
  \/ DownRoom /\ Restart
  \/ \E p \in LicPresets : DownRoom /\ Len(jobs) < MaxDownJobs /\ create_job(p)
  \/ \E j \in 1..MaxDownJobs :
       /\ Room(MaxDownSessions, MaxDownEvents)
       /\ Len(schedules) < MaxDownSessions
       /\ run_now_new(j)

SpecDown == InitLic /\ [][NextDown]_vars

\* ---------------------------------------------------------- SpecGate
\* The process starts on a database that holds a job and a license with a
\* running lease; jobs are created beside it.  Every preset and tier occurs.
GateJobs ==
  { [preset_id |-> p, status |-> st.status, invalid_reason |-> st.invalid_reason] :
      p \in 1..MissingPreset,
      st \in { [status |-> "pending", invalid_reason |-> NoReason],
               [status |-> "running", invalid_reason |-> NoReason],
               [status |-> "running",
                invalid_reason |-> "Immediate swaps require Ultimate"],
               [status |-> "invalid",
                invalid_reason |-> "Looped windows require Premium or above"] } }

InitGate ==
  /\ now = 0
  /\ \E tier \in LicenseTier :
       state = [tier |-> tier, lease_expires_at |-> lease_window(0),
                grace_expires_at |-> NoneT]
  /\ license_row = state
  /\ retry_deadline = retry_window(0)
  /\ lic_pc = "sleep"
  /\ lic_wake = lease_window(0)
  /\ faults = 0
  /\ \E job \in GateJobs : jobs = << job >>
  /\ schedules = << >>
  /\ sessions = << >>
  /\ events = << >>
  /\ locks = << >>
  /\ pc = [r \in Runners |-> "start"]
  /\ wake = [r \in Runners |-> 0]
  /\ todo = [r \in Runners |-> << >>]
  /\ seen = [r \in Runners |-> NoLock]

NextGate ==
  \/ Restart
  \/ \E p \in 1..MissingPreset : Len(jobs) < MaxGateJobs /\ create_job(p)

SpecGate == InitGate /\ [][NextGate]_vars

\* ---------------------------------------------------------- SpecEval
\* One runner and process-schedule-now on a database that holds one schedule
\* of any shape for job 1; POST /schedules does not look the job up, so the
\* job row exists or not.
EvalShapes ==
  { NewSchedule(1, starts_at, ends_at, duration_minutes, mode, loop, FALSE) :
      starts_at \in {0, scheduler_tick_seconds},
      ends_at \in {NoneT, scheduler_tick_seconds, 2 * scheduler_tick_seconds},
      duration_minutes \in {NoneT, 0, 1},
      mode \in ScheduleMode,
      loop \in BOOLEAN }

InitEval ==
  /\ now = 0
  /\ state \in WindowLicenses
  /\ license_row = state
  /\ retry_deadline = retry_window(0)
  /\ lic_pc = "sleep"
  /\ lic_wake = lease_window(0)
  /\ faults = 0
  /\ jobs \in {<< >>, << NewJob(1) >>}
  /\ \E shape \in EvalShapes : schedules = << shape >>
  /\ sessions = << >>
  /\ events = << >>
  /\ locks = << >>
  /\ pc = [r \in Runners |-> "start"]
  /\ wake = [r \in Runners |-> 0]
  /\ todo = [r \in Runners |-> << >>]
  /\ seen = [r \in Runners |-> NoLock]

EvalRoom == Room(MaxEvalSessions, MaxEvalEvents)

NextEval ==
  \/ AcquireRead(Local)
  \/ AcquireGranted(Local)
  \/ EvalRoom /\ ProcessNext(Local)
  \/ EvalRoom /\ RetryAttempt(Local)
  \/ EndOfTick(Local)
  \/ Advance(MaxEvalTicks)
  \/ EvalRoom /\ run_now(1, 1)

SpecEval == InitEval /\ [][NextEval]_vars

\* ================================================================ claims
\* ------------------------------------------------------------------ C1
\* A runner is inside the schedule-processing part of a tick from its granted
\* _acquire_lock to the end of its for loop, retry sleeps included.
Inside(r) == pc[r] \in {"iterate", "sleep_retry"}

\* C1: at every moment at most one runner is inside the schedule-processing
\* part of a tick.
C1_MutualExclusion ==
  \A r1, r2 \in Runners : Inside(r1) /\ Inside(r2) => r1 = r2

\* ------------------------------------------------------------------ C3
\* C3: an exception raised while a schedule is processed, in the first attempt
\* or in the re-attempt, never ends the loop of _tick.
C3_LoopNeverEnds ==
  \A r \in Runners : pc[r] # "crashed"

\* ------------------------------------------------------------------ C4
ImmediateSwap(job_id) ==
  /\ job_id \in DOMAIN jobs
  /\ jobs[job_id].preset_id \in DOMAIN presets
  /\ presets[jobs[job_id].preset_id].hot_swap = "immediate"

\* C4: while the tier in force is premium, a job whose preset has
\* hot_swap = immediate is invalid with reason "Immediate swaps require
\* Ultimate" and no Session exists for it.
C4_NeverStarted ==
  TierNow = "premium" =>
    \A j \in DOMAIN jobs :
      ImmediateSwap(j) =>
        /\ jobs[j].status = "invalid"
        /\ jobs[j].invalid_reason = "Immediate swaps require Ultimate"
        /\ \A i \in DOMAIN sessions : sessions[i].job_id # j

\* ------------------------------------------------------------------ C5
\* Scenario A: a one_time schedule that started in the past and has no end, the
\* tier in force basic, the preset of its job without premium features.
ScenarioA(sid) ==
  /\ schedules[sid].mode = "one_time"
  /\ schedules[sid].starts_at < now
  /\ schedules[sid].ends_at = NoneT
  /\ TierNow = "basic"
  /\ schedules[sid].job_id \in DOMAIN jobs
  /\ jobs[schedules[sid].job_id].preset_id \in DOMAIN presets
  /\ presets[jobs[schedules[sid].job_id].preset_id].audio_replace = "none"
  /\ presets[jobs[schedules[sid].job_id].preset_id].hot_swap = "none"

\* The step is _process_schedule on row sid, no database error met.
Processed(sid) ==
  DB' = process_schedule(DB, sid, TierNow, now, "none").db

StartedEvents(evs) ==
  Cardinality({i \in DOMAIN evs : evs[i].event_type = "started"})

\* C5: processing a schedule of Scenario A creates exactly one Session, which
\* is completed with ended_at set, leaves the job completed, sets
\* schedule.last_run_at and appends exactly one started event.
C5_ScenarioA ==
  [][\A sid \in DOMAIN schedules :
       ScenarioA(sid) /\ Processed(sid) =>
         /\ Len(sessions') = Len(sessions) + 1
         /\ sessions'[Len(sessions')].schedule_id = sid
         /\ sessions'[Len(sessions')].status = "completed"
         /\ sessions'[Len(sessions')].ended_at # NoneT
         /\ jobs'[schedules[sid].job_id].status = "completed"
         /\ schedules'[sid].last_run_at = now
         /\ StartedEvents(events') = StartedEvents(events) + 1]_vars

\* ------------------------------------------------------------------ C6
\* C6: processing a schedule twice at the same tier and time, nothing written
\* in between, decides the same both times and the second time creates no
\* Session.
C6_Idempotent ==
  \A sid \in DOMAIN schedules :
    LET once == process_schedule(DB, sid, TierNow, now, "none").db
        twice == process_schedule(once, sid, TierNow, now, "none").db
    IN /\ process_decision(once.jobs, once.schedules[sid], TierNow, now)
            = process_decision(jobs, schedules[sid], TierNow, now)
       /\ Len(twice.sessions) = Len(once.sessions)

\* ------------------------------------------------------------------ C7
\* C7: for every job, invalid_reason is set if and only if status = invalid.
C7_ReasonIffInvalid ==
  \A j \in DOMAIN jobs :
    (jobs[j].invalid_reason # NoReason) <=> (jobs[j].status = "invalid")

\* ------------------------------------------------------------------ C9
\* The three states of the license as the specification defines them.
trusted(st, t) == t < st.lease_expires_at
grace(st, t) ==
  ~trusted(st, t) /\ st.grace_expires_at # NoneT /\ t < st.grace_expires_at

\* C9: get_tier returns the stored tier exactly when the license is trusted or
\* in grace, and basic in every other case.
C9_GetTier ==
  get_tier(state, now) =
    IF trusted(state, now) \/ grace(state, now) THEN state.tier ELSE "basic"

\* ------------------------------------------------------------------ C10
\* The row _acquire_lock wrote when it returned True to runner r.
Written(r) ==
  IF seen[r].id = 0 THEN locks'[Len(locks')] ELSE locks'[seen[r].id]

\* C10: _acquire_lock of runner r returns True exactly when no row exists, or
\* now >= expires_at of the row, or the row is locked by r; the row it then
\* leaves has locked_by = r and expires_at = now + 3 tick intervals.
C10_Acquire ==
  [][\A r \in Runners :
       pc[r] = "acquire" /\ pc'[r] # "acquire" =>
         /\ pc'[r] = "iterate" <=>
              \/ seen[r].id = 0
              \/ now >= seen[r].expires_at
              \/ seen[r].locked_by = r
         /\ pc'[r] = "iterate" =>
              /\ Written(r).locked_by = r
              /\ Written(r).expires_at = now + 3 * scheduler_tick_seconds]_vars

\* C10, the case reached: a runner was granted the lock on reading its own
\* row, the lease of which was not over.
C10_Reacquired ==
  \E r \in Runners :
    /\ pc[r] = "iterate"
    /\ seen[r].id # 0
    /\ seen[r].locked_by = r
    /\ seen[r].expires_at > now

\* ------------------------------------------------------------------ C2
\* The time of the last successful renewal, read off the lease it granted.
last_success == license_row.lease_expires_at - license_lease_hours * 3600

\* C2: a stored tier above basic does not outlive the last successful renewal
\* by more than the grace duration plus the retry window: once _run has passed
\* the top of its loop at a later time, the forced downgrade has made the
\* stored tier basic.
C2_BoundedWindow ==
  license_row.tier # "basic" /\ lic_pc # "top" =>
    now <= last_success + licensing_grace_hours * 3600
                        + licensing_retry_window_minutes * 60

\* ------------------------------------------------------------------ C8
\* The step is a forced downgrade that takes the tier from premium to basic.
ForcedFromPremium ==
  /\ state.tier = "premium"
  /\ state'.tier = "basic"
  /\ Len(events') > Len(events)
  /\ events'[Len(events) + 1] = ForcedDowngrade

\* The preset of the job is missing or uses a feature basic does not have.
NeedsPremium(job) ==
  \/ job.preset_id \notin DOMAIN presets
  \/ presets[job.preset_id].audio_replace # "none"
  \/ presets[job.preset_id].hot_swap # "none"

\* C8: a forced downgrade from premium to basic leaves invalid exactly the jobs
\* whose preset is missing or uses audio_replace or hot_swap, and leaves every
\* other job pending with invalid_reason cleared, whatever its status was.
C8_ForcedDowngrade ==
  [][ForcedFromPremium =>
       \A j \in DOMAIN jobs :
         IF NeedsPremium(jobs[j])
           THEN jobs'[j].status = "invalid" /\ jobs'[j].invalid_reason # NoReason
           ELSE jobs'[j].status = "pending" /\ jobs'[j].invalid_reason = NoReason]_vars

\* C8, the case reached: a forced downgrade has just been made with two jobs,
\* one that ran and is pending again, one invalid for its hot swap.
C8_Downgraded ==
  /\ lic_pc = "renew"
  /\ Len(events) >= 2
  /\ events[Len(events) - 1] = ForcedDowngrade
  /\ events[Len(events)].message = "Hot swap requires Premium"
  /\ \E j \in DOMAIN jobs :
       /\ jobs[j].status = "pending"
       /\ \E i \in DOMAIN sessions : sessions[i].job_id = j
  /\ \E j \in DOMAIN jobs :
       /\ jobs[j].status = "invalid"
       /\ jobs[j].invalid_reason = "Hot swap requires Premium"

\* C8 as first stated: a forced downgrade from premium to basic makes invalid
\* exactly the jobs that need a feature basic does not have, and every other
\* job keeps the status it had.
C8_OthersKeepStatus ==
  [][ForcedFromPremium =>
       \A j \in DOMAIN jobs :
         IF NeedsPremium(jobs[j])
           THEN jobs'[j].status = "invalid"
           ELSE jobs'[j].status = jobs[j].status]_vars

\* ------------------------------------------------------------------ C11
\* Runner a holds the lock: the row _acquire_lock selects is locked by a and
\* its lease is not over.
HoldsLock(a) ==
  /\ locks # << >>
  /\ locks[1].locked_by = a
  /\ locks[1].expires_at > now

\* C11: while runner a holds the lock, an _acquire_lock of another runner b
\* that returns, returns False and leaves the lock rows as they are, also
\* when b read the row before a committed.
C11_RefusedUnchanged ==
  [][\A a, b \in Runners :
       a # b /\ HoldsLock(a) /\ pc[b] = "acquire" /\ pc'[b] # "acquire" =>
         pc'[b] = "sleep_lock" /\ locks' = locks]_vars

\* ------------------------------------------------------------------ C12
\* The step is a renewal attempt that failed: _run leaves renew_license, or
\* its except branch, with the grace window set at this attempt.
FailedRenewal ==
  /\ lic_pc = "renew"
  /\ lic_pc' = "sleep"
  /\ state'.grace_expires_at = grace_window(now)

\* C12: after a failed renewal attempt _run sleeps the backoff interval and
\* its retry deadline keeps the value it had.
C12_BackoffKeepsDeadline ==
  [][FailedRenewal =>
       /\ lic_wake' = now + licensing_retry_backoff_minutes * 60
       /\ retry_deadline' = retry_deadline]_vars

\* ------------------------------------------------------------------ C13
\* The step is a renewal attempt that succeeded: the grace window is cleared.
SucceededRenewal ==
  /\ lic_pc = "renew"
  /\ lic_pc' = "sleep"
  /\ state'.grace_expires_at = NoneT

\* The step appends exactly one event, of the given type.
AppendsOne(event_type) ==
  /\ Len(events') = Len(events) + 1
  /\ SubSeq(events', 1, Len(events)) = events
  /\ events'[Len(events')].event_type = event_type

\* C13: with the database working, a failed renewal returns to _run with the
\* tier and lease_expires_at as they were, grace_expires_at = now + grace
\* duration and one downgraded event appended; a successful renewal returns
\* with a tier of the response, lease_expires_at = now + lease duration,
\* grace_expires_at cleared and one upgraded event appended.  The row is
\* written with the state held.
C13_Renewal ==
  [][/\ FailedRenewal /\ faults' = faults =>
          /\ state'.tier = state.tier
          /\ state'.lease_expires_at = state.lease_expires_at
          /\ state'.grace_expires_at = now + licensing_grace_hours * 3600
          /\ license_row' = state'
          /\ AppendsOne("downgraded")
     /\ SucceededRenewal /\ faults' = faults =>
          /\ state'.tier \in LicenseTier
          /\ state'.lease_expires_at = now + license_lease_hours * 3600
          /\ license_row' = state'
          /\ AppendsOne("upgraded")]_vars

\* C13, the case reached: a renewal has failed while a tier above basic is
\* held; the tier is kept and the grace window runs from now.
C13_GraceSet ==
  /\ lic_pc = "sleep"
  /\ state.tier # "basic"
  /\ state.grace_expires_at = grace_window(now)
  /\ license_row = state
  /\ events # << >>
  /\ events[Len(events)] = renewal_event("failed")

\* ------------------------------------------------------------------ C14
\* The step is the call of downgrade_if_needed at the top of the loop of _run.
TopOfLoop == lic_pc = "top" /\ lic_pc' = "renew"

\* The events of the step beyond the first one it appends.
LaterEvents == SubSeq(events', Len(events) + 2, Len(events'))

\* C14: downgrade_if_needed acts exactly when get_tier is basic and the tier
\* held is not: it then sets the tier basic, held and stored, stores a grace
\* window from now, appends one downgraded event and passes every job
\* through the gate at tier basic; otherwise it changes nothing.
C14_DowngradeIfNeeded ==
  [][TopOfLoop =>
       IF get_tier(state, now) = "basic" /\ state.tier # "basic"
         THEN /\ state'.tier = "basic"
              /\ license_row'.tier = "basic"
              /\ license_row'.grace_expires_at = now + licensing_grace_hours * 3600
              /\ Len(events') > Len(events)
              /\ SubSeq(events', 1, Len(events)) = events
              /\ events'[Len(events) + 1].event_type = "downgraded"
              /\ \A i \in DOMAIN LaterEvents :
                    LaterEvents[i].event_type = "invalidated"
              /\ DOMAIN jobs' = DOMAIN jobs
              /\ \A j \in DOMAIN jobs :
                    IF NeedsPremium(jobs[j])
                      THEN jobs'[j].status = "invalid"
                      ELSE /\ jobs'[j].status = "pending"
                           /\ jobs'[j].invalid_reason = NoReason
         ELSE UNCHANGED << state, license_row, jobs, events >>]_vars

\* C14, the case reached: downgrade_if_needed has just acted, the row holds
\* a grace window from now that the state held does not, and jobs exist.
C14_Acted ==
  /\ lic_pc = "renew"
  /\ jobs # << >>
  /\ state.tier = "basic"
  /\ state.grace_expires_at = NoneT
  /\ license_row.tier = "basic"
  /\ license_row.grace_expires_at = grace_window(now)
  /\ \E i \in DOMAIN events : events[i] = ForcedDowngrade

\* ------------------------------------------------------------------ C15
\* The outcome of the gate as the specification gives it: the reason a job
\* with this preset is invalid for at this tier, NoReason when it passes.
gate_reason(preset_id, tier) ==
  IF preset_id \notin DOMAIN presets THEN "Missing preset"
  ELSE IF tier = "basic" /\ presets[preset_id].audio_replace # "none"
    THEN "Audio replace requires Premium"
  ELSE IF tier = "basic" /\ presets[preset_id].hot_swap # "none"
    THEN "Hot swap requires Premium"
  ELSE IF tier \in {"basic", "premium"} /\ presets[preset_id].hot_swap = "immediate"
    THEN "Immediate swaps require Ultimate"
  ELSE NoReason

\* Job j is, after the step, as the gate leaves it at this tier.
Gated(j, tier) ==
  IF gate_reason(jobs'[j].preset_id, tier) # NoReason
    THEN /\ jobs'[j].status = "invalid"
         /\ jobs'[j].invalid_reason = gate_reason(jobs'[j].preset_id, tier)
    ELSE /\ jobs'[j].status = "pending"
         /\ jobs'[j].invalid_reason = NoReason

\* The events the step appends are one invalidated event, with the reason,
\* for each of the jobs js that the gate leaves invalid at this tier.
GateEvents(js, tier) ==
  LET added == SubSeq(events', Len(events) + 1, Len(events'))
      invalid == {j \in js : gate_reason(jobs'[j].preset_id, tier) # NoReason}
  IN /\ SubSeq(events', 1, Len(events)) = events
     /\ Len(added) = Cardinality(invalid)
     /\ \A j \in invalid :
          \E i \in DOMAIN added :
            /\ added[i].event_type = "invalidated"
            /\ added[i].job_id = j
            /\ added[i].message = gate_reason(jobs'[j].preset_id, tier)

\* The step is downgrade_jobs at the start of the process.
StartupGate == lic_pc = "sleep" /\ lic_pc' = "top" /\ now' = now

\* The step is POST /jobs.
JobCreated == Len(jobs') = Len(jobs) + 1

\* C15: evaluate_license leaves a job invalid with "Missing preset" when its
\* preset does not exist; else at basic with "Audio replace requires Premium"
\* when audio_replace is not none, else with "Hot swap requires Premium" when
\* hot_swap is not none; else below ultimate with "Immediate swaps require
\* Ultimate" when hot_swap is immediate; otherwise pending with
\* invalid_reason cleared.  Each invalid outcome appends one invalidated
\* event.
C15_Gate ==
  [][/\ StartupGate =>
          /\ DOMAIN jobs' = DOMAIN jobs
          /\ \A j \in DOMAIN jobs :
               jobs'[j].preset_id = jobs[j].preset_id /\ Gated(j, get_tier(state', now))
          /\ GateEvents(DOMAIN jobs, get_tier(state', now))
     /\ JobCreated =>
          /\ SubSeq(jobs', 1, Len(jobs)) = jobs
          /\ Gated(Len(jobs'), TierNow)
          /\ GateEvents({Len(jobs')}, TierNow)]_vars

\* C15, the case reached: at basic the gate has left a job invalid whose
\* preset uses both an audio replace and an immediate hot swap; the reason
\* is the audio replace.
C15_AudioFirst ==
  /\ lic_pc = "top"
  /\ state.tier = "basic"
  /\ \E j \in DOMAIN jobs :
       /\ jobs[j].preset_id \in DOMAIN presets
       /\ presets[jobs[j].preset_id].audio_replace # "none"
       /\ presets[jobs[j].preset_id].hot_swap = "immediate"
       /\ jobs[j].status = "invalid"
       /\ jobs[j].invalid_reason = "Audio replace requires Premium"
       /\ \E i \in DOMAIN events :
            events[i] = NewEvent("invalidated", j, NoneT,
                                 "Audio replace requires Premium")

\* --------------------------------------------------- C16 .. C20, steps
\* The runner has schedule sid at hand: _process_schedule is about to run.
AtHand(sid) ==
  pc[Local] = "iterate" /\ todo[Local] # << >> /\ Head(todo[Local]) = sid

\* The step is _process_schedule on sid, called by the loop, that returns.
Returned(sid) ==
  /\ AtHand(sid)
  /\ todo'[Local] = Tail(todo[Local])
  /\ events' = events \/ events'[Len(events')].event_type # "retry"

\* The step starts a Session for schedule sid.
Starts(sid) ==
  \E i \in DOMAIN sessions' :
    i \notin DOMAIN sessions /\ sessions'[i].schedule_id = sid

planned_end(schedule) ==
  schedule.starts_at
    + 60 * (IF schedule.duration_minutes = NoneT THEN 0 ELSE schedule.duration_minutes)

\* ------------------------------------------------------------------ C16
\* C16: a windowed schedule the runner has at hand is due exactly when
\* starts_at <= now, and not (ends_at is set and now > ends_at), and not
\* (now > planned_end and loop is false).
C16_WindowedDue ==
  \A sid \in DOMAIN schedules :
    AtHand(sid) /\ schedules[sid].mode = "windowed" =>
      (should_run(schedules[sid], now) <=>
         /\ schedules[sid].starts_at <= now
         /\ ~(schedules[sid].ends_at # NoneT /\ now > schedules[sid].ends_at)
         /\ ~(now > planned_end(schedules[sid]) /\ ~schedules[sid].loop))

\* ------------------------------------------------------------------ C17
one_time_due(schedule, t) ==
  schedule.starts_at <= t /\ (schedule.ends_at = NoneT \/ t <= schedule.ends_at)

\* C17: a one_time schedule is due exactly when starts_at <= now and ends_at
\* is unset or now <= ends_at, whatever loop, duration_minutes and
\* last_run_at are; processing it starts a Session exactly when it is due.
C17_OneTimeDue ==
  [][\A sid \in DOMAIN schedules :
       schedules[sid].mode = "one_time" =>
         /\ should_run(schedules[sid], now) <=> one_time_due(schedules[sid], now)
         /\ Returned(sid) /\ schedules[sid].job_id \in DOMAIN jobs =>
              (Starts(sid) <=> one_time_due(schedules[sid], now))]_vars

\* C17, the case reached: a one_time schedule with loop and duration_minutes
\* set, which ran before, has run again at the instant of its ends_at.
C17_RanAtEnd ==
  \E sid \in DOMAIN schedules :
    /\ schedules[sid].mode = "one_time"
    /\ schedules[sid].loop
    /\ schedules[sid].duration_minutes = 1
    /\ schedules[sid].starts_at < now
    /\ schedules[sid].ends_at = now
    /\ schedules[sid].last_run_at = now
    /\ Len(sessions) >= 2

\* ------------------------------------------------------------------ C18
PastPlannedEnd(sid) ==
  /\ schedules[sid].mode = "windowed"
  /\ ~schedules[sid].loop
  /\ now > planned_end(schedules[sid])

\* C18: a windowed schedule with loop false is, at any time after starts_at +
\* duration_minutes, not due, and no step starts a Session for it, whatever
\* ends_at is.
C18_NeverAfterPlannedEnd ==
  [][\A sid \in DOMAIN schedules :
       PastPlannedEnd(sid) =>
         ~should_run(schedules[sid], now) /\ ~Starts(sid)]_vars

\* C18, the case reached: a tick is over at a time after the planned end of a
\* window without loop and without ends_at, and the window did not run in it.
C18_Skipped ==
  \E sid \in DOMAIN schedules :
    /\ PastPlannedEnd(sid)
    /\ schedules[sid].ends_at = NoneT
    /\ pc[Local] = "sleep_tick"
    /\ wake[Local] = now + scheduler_tick_seconds
    /\ schedules[sid].last_run_at # now

\* ------------------------------------------------------------------ C19
LoopedWindow(sid) ==
  schedules[sid].loop /\ schedules[sid].mode = "windowed"

\* C19: while the tier in force is basic, no step starts a Session for a
\* windowed schedule with loop, and _process_schedule on it, due or not,
\* leaves its job invalid with reason "Looped windows require Premium or
\* above".
C19_LoopedWindowAtBasic ==
  [][\A sid \in DOMAIN schedules :
       TierNow = "basic" /\ LoopedWindow(sid) =>
         /\ ~Starts(sid)
         /\ Returned(sid) /\ schedules[sid].job_id \in DOMAIN jobs =>
              /\ jobs'[schedules[sid].job_id].status = "invalid"
              /\ jobs'[schedules[sid].job_id].invalid_reason
                   = "Looped windows require Premium or above"]_vars

\* C19, the case reached: at basic a looped window that is not due yet has
\* been processed, its job is invalid and no Session exists.
C19_InvalidBeforeDue ==
  \E sid \in DOMAIN schedules :
    /\ TierNow = "basic"
    /\ LoopedWindow(sid)
    /\ schedules[sid].starts_at > now
    /\ schedules[sid].job_id \in DOMAIN jobs
    /\ jobs[schedules[sid].job_id].status = "invalid"
    /\ jobs[schedules[sid].job_id].invalid_reason
         = "Looped windows require Premium or above"
    /\ sessions = << >>

\* ------------------------------------------------------------------ C20
\* Scenario C: a window without loop, ends_at and duration_minutes both set,
\* that lasts longer than duration_minutes.
ScenarioC(sid) ==
  /\ schedules[sid].mode = "windowed"
  /\ ~schedules[sid].loop
  /\ schedules[sid].ends_at # NoneT
  /\ schedules[sid].duration_minutes # NoneT
  /\ schedules[sid].ends_at - schedules[sid].starts_at
       > 60 * schedules[sid].duration_minutes

\* C20: _process_schedule on a schedule of Scenario C leaves the job invalid
\* with reason "Loop required when window exceeds duration", appends one
\* invalidated event, starts no Session and leaves the schedule as it is.
C20_ScenarioC ==
  [][\A sid \in DOMAIN schedules :
       ScenarioC(sid) /\ Returned(sid) /\ schedules[sid].job_id \in DOMAIN jobs =>
         /\ jobs'[schedules[sid].job_id].status = "invalid"
         /\ jobs'[schedules[sid].job_id].invalid_reason
              = "Loop required when window exceeds duration"
         /\ events' = Append(events,
                         NewEvent("invalidated", schedules[sid].job_id, NoneT,
                                  "Loop required when window exceeds duration"))
         /\ sessions' = sessions
         /\ schedules' = schedules]_vars

\* ------------------------------------------------------------------ C21
\* C21: for the schedule the runner has at hand, _retry_within_window is true
\* exactly when _should_run is true at the same time.
C21_RetryWindowIsDueness ==
  \A sid \in DOMAIN schedules :
    AtHand(sid) =>
      (retry_within_window(schedules[sid], now) <=> should_run(schedules[sid], now))

\* ------------------------------------------------------------------ C22
RetryEvents(evs) ==
  Cardinality({i \in DOMAIN evs : evs[i].event_type = "retry"})

\* The retry window as the specification of the loop gives it: the schedule
\* is not past its ends_at and, without loop, not past its planned end.
InRetryWindow(sid) ==
  /\ ~(schedules[sid].ends_at # NoneT /\ now > schedules[sid].ends_at)
  /\ ~(now > planned_end(schedules[sid]) /\ ~schedules[sid].loop)

\* The step is _process_schedule on sid, called by the loop, that raises.
Raised(sid) ==
  /\ AtHand(sid)
  /\ Len(events') > Len(events)
  /\ events'[Len(events')].event_type = "retry"

\* C22: a schedule whose processing raises in the loop gets one retry event;
\* within its retry window the runner sleeps one tick interval and
\* re-attempts it once, with no further retry event and no further sleep;
\* outside its retry window the loop goes on to the next schedule.
C22_OneRetry ==
  [][/\ \A sid \in DOMAIN schedules :
          Raised(sid) =>
            /\ RetryEvents(events') = RetryEvents(events) + 1
            /\ IF InRetryWindow(sid)
                 THEN /\ pc'[Local] = "sleep_retry"
                      /\ wake'[Local] = now + scheduler_tick_seconds
                      /\ todo'[Local] = todo[Local]
                 ELSE /\ pc'[Local] = "iterate"
                      /\ todo'[Local] = Tail(todo[Local])
     /\ pc[Local] = "sleep_retry" /\ pc'[Local] # "sleep_retry" =>
          /\ now >= wake[Local]
          /\ RetryEvents(events') = RetryEvents(events)
          /\ \/ pc'[Local] = "iterate" /\ todo'[Local] = Tail(todo[Local])
             \/ pc'[Local] = "crashed"]_vars

\* C22, the case reached: a schedule raised, the runner slept one interval,
\* and the re-attempt ran the schedule.
C22_Reattempted ==
  /\ pc[Local] = "iterate"
  /\ todo[Local] = << >>
  /\ now = wake[Local]
  /\ RetryEvents(events) = 1
  /\ \E i \in DOMAIN sessions : sessions[i].ended_at = now

\* ------------------------------------------------------------------ C23
\* The outcome with the window validation checked first and the license
\* gate second.
validation_first(js, schedule, tier, t) ==
  IF schedule.job_id \notin DOMAIN js
    THEN [kind |-> "nojob", reason |-> NoReason]
  ELSE IF /\ schedule.mode = "windowed"
          /\ schedule.ends_at # NoneT
          /\ schedule.duration_minutes # NoneT
          /\ schedule.duration_minutes # 0
          /\ schedule.ends_at - schedule.starts_at > 60 * schedule.duration_minutes
          /\ ~schedule.loop
    THEN [kind |-> "invalid", reason |-> "Loop required when window exceeds duration"]
  ELSE IF tier = "basic" /\ schedule.loop /\ schedule.mode = "windowed"
    THEN [kind |-> "invalid", reason |-> "Looped windows require Premium or above"]
  ELSE IF ~should_run(schedule, t)
    THEN [kind |-> "skip", reason |-> NoReason]
  ELSE [kind |-> "run", reason |-> NoReason]

\* C23: for the schedule the runner has at hand, the outcome of
\* _process_schedule (skip, invalid with its reason, run) is the outcome of
\* checking the window validation first and the license gate second.
C23_GateOrder ==
  \A sid \in DOMAIN schedules :
    AtHand(sid) =>
      process_decision(jobs, schedules[sid], TierNow, now)
        = validation_first(jobs, schedules[sid], TierNow, now)

\* C23, the case reached: at basic the runner has at hand a window without
\* loop that fails the window validation.
C23_InvalidWindowAtBasic ==
  \E sid \in DOMAIN schedules :
    /\ AtHand(sid)
    /\ TierNow = "basic"
    /\ schedules[sid].job_id \in DOMAIN jobs
    /\ validate_schedule(schedules[sid]) # NoReason

\* ------------------------------------------------------------------ C24
\* C24: a runner whose _acquire_lock returns False changes no job, schedule,
\* session or lock row and appends no event; it sleeps one tick interval and
\* its next step is the next _acquire_lock, which changes none of them
\* before it decides.
C24_RefusedTickIsIdle ==
  [][\A r \in Runners :
       /\ pc[r] = "acquire" /\ pc'[r] = "sleep_lock" =>
            /\ UNCHANGED << jobs, schedules, sessions, events, locks >>
            /\ wake'[r] = now + scheduler_tick_seconds
       /\ pc[r] = "sleep_lock" /\ pc'[r] # "sleep_lock" =>
            /\ pc'[r] = "acquire"
            /\ now >= wake[r]
            /\ UNCHANGED << jobs, schedules, sessions, events, locks >>]_vars

\* C24, the case reached: a runner that was never granted the lock is at its
\* next _acquire_lock, one tick interval after a refused one.
C24_NextAttempt ==
  \E r \in Runners :
    /\ pc[r] = "acquire"
    /\ now > 0
    /\ wake[r] = now
    /\ locks # << >>
    /\ \A i \in DOMAIN locks : locks[i].locked_by # r /\ locks[i].locked_at = 0

\* ------------------------------------------------------------------ C25
\* The step is the re-attempt of sid after the retry sleep, and it returns.
Reattempted(sid) ==
  /\ pc[Local] = "sleep_retry"
  /\ Head(todo[Local]) = sid
  /\ pc'[Local] = "iterate"

\* The step leaves the runner and the clock alone: a request.
ByRequest == UNCHANGED << now, runner_vars >>

\* _process_schedule on sid comes to the dueness check and finds it not due.
ValidNotDue(sid) ==
  /\ schedules[sid].job_id \in DOMAIN jobs
  /\ ~(TierNow = "basic" /\ LoopedWindow(sid))
  /\ validate_schedule(schedules[sid]) = NoReason
  /\ ~should_run(schedules[sid], now)

\* C25: _process_schedule on a schedule that is valid but not due, or whose
\* job does not exist, called by the loop, by the re-attempt or by a request,
\* changes no job, schedule or session row and appends no event.
C25_SkipChangesNothing ==
  [][\A sid \in DOMAIN schedules :
       /\ schedules[sid].job_id \notin DOMAIN jobs \/ ValidNotDue(sid)
       /\ Returned(sid) \/ Reattempted(sid) \/ ByRequest
       => UNCHANGED << jobs, schedules, sessions, events >>]_vars

\* C25, the case reached: the loop went over a valid schedule that starts
\* later, and the job is pending, with no Session and no event.
C25_Skipped ==
  \E sid \in DOMAIN schedules :
    /\ ValidNotDue(sid)
    /\ schedules[sid].starts_at > now
    /\ pc[Local] = "iterate"
    /\ todo[Local] = << >>
    /\ jobs[schedules[sid].job_id].status = "pending"
    /\ sessions = << >>
    /\ events = << >>

\* ------------------------------------------------------------------ C26
\* _process_schedule on sid comes to the dueness check and finds it due.
ValidDue(sid) ==
  /\ schedules[sid].job_id \in DOMAIN jobs
  /\ ~(TierNow = "basic" /\ LoopedWindow(sid))
  /\ validate_schedule(schedules[sid]) = NoReason
  /\ should_run(schedules[sid], now)

\* C26: _process_schedule on a valid and due schedule, called by the loop of
\* a tick that acquired the lock, by the re-attempt or by a request, and met
\* by no database error, creates one new Session for the schedule and
\* appends one event, a started one, whatever last_run_at, the status of the
\* job and the Sessions that exist are.
C26_EveryCallStarts ==
  [][\A sid \in DOMAIN schedules :
       /\ ValidDue(sid)
       /\ Returned(sid) \/ Reattempted(sid) \/ (ByRequest /\ Processed(sid))
       => /\ Len(sessions') = Len(sessions) + 1
          /\ sessions'[Len(sessions')].schedule_id = sid
          /\ \A i \in DOMAIN sessions : sessions'[i] = sessions[i]
          /\ Len(events') = Len(events) + 1
          /\ StartedEvents(events') = StartedEvents(events) + 1]_vars

\* C26, the case reached: a one_time schedule without ends_at, processed in
\* two ticks and by a request, has three Sessions and three started events.
C26_StartedAgain ==
  \E sid \in DOMAIN schedules :
    /\ schedules[sid].mode = "one_time"
    /\ schedules[sid].ends_at = NoneT
    /\ schedules[sid].starts_at = 0
    /\ now = scheduler_tick_seconds
    /\ Len(sessions) = 3
    /\ \A i \in DOMAIN sessions : sessions[i].schedule_id = sid
    /\ sessions[1].ended_at = 0
    /\ sessions[2].ended_at = now
    /\ sessions[3].ended_at = now
    /\ pc[Local] = "sleep_tick"
    /\ StartedEvents(events) = 3
    /\ Len(events) = 3

\* ------------------------------------------------------------------ C27
\* C27: a Session that is closed is changed by no step, and every Session
\* created by a _process_schedule call that met no database error, called by
\* the loop, by the re-attempt or by a request, is closed when the call
\* returns: its status is completed and its ended_at is the time of the call.
C27_ClosedInCall ==
  [][/\ \A i \in DOMAIN sessions :
          sessions[i].status # "running" =>
            i \in DOMAIN sessions' /\ sessions'[i] = sessions[i]
     /\ \A sid \in DOMAIN schedules :
          Returned(sid) \/ Reattempted(sid) \/ (ByRequest /\ Processed(sid)) =>
            \A i \in DOMAIN sessions' :
              i \notin DOMAIN sessions =>
                /\ sessions'[i].status = "completed"
                /\ sessions'[i].ended_at = now]_vars

\* C27, the case reached: no call raised, and the Sessions of two ticks are
\* closed, each with the time of its tick.
C27_AllClosed ==
  /\ RetryEvents(events) = 0
  /\ pc[Local] = "sleep_tick"
  /\ now = scheduler_tick_seconds
  /\ Len(sessions) = 2
  /\ sessions[1].status = "completed" /\ sessions[1].ended_at = 0
  /\ sessions[2].status = "completed" /\ sessions[2].ended_at = now

====
